---- MODULE Spec2Model ----
(***************************************************************************)
(* Multi-modal fusion engine (backend/app/ml/fusion_engine.py) and the     *)
(* endpoints that feed it (backend/app/api/v1/endpoints).                  *)
(*                                                                         *)
(* Numbers.  Scores are credibility points (0..100).  Confidences are in   *)
(* hundredths (0.95 is 95).  Weights, fused scores and fused confidences   *)
(* are exact rationals [n |-> numerator, d |-> denominator > 0] in lowest  *)
(* terms, so that the divisions of the code are computed, not assumed.     *)
(*                                                                         *)
(* Python dicts are records with a field "keys" (the keys present) and one *)
(* field per possible key; d.get(k, default) is Get-style IF k \in d.keys. *)
(* A dict is truthy iff it has at least one key; None is null = TRUE; a    *)
(* key holding None is in "nulls"; an object that is no dict has           *)
(* mapping = FALSE.                                                        *)
(***************************************************************************)
EXTENDS Integers, Sequences, FiniteSets, TLC

\* ------------------------------------------------------------------ bounds
MaxWeight == 1
MaxMutations == 1
MaxAnalyses == 1

\* ------------------------------------------------------- exact arithmetic
Abs(x) == IF x < 0 THEN -x ELSE x

RECURSIVE GCD(_, _)
GCD(a, b) == IF b = 0 THEN a ELSE GCD(b, a % b)

Rat(n, d) ==
    LET s == IF d < 0 THEN -1 ELSE 1
        g == GCD(Abs(n), Abs(d))
    IN  [n |-> (s * n) \div g, d |-> (s * d) \div g]

RInt(i) == [n |-> i, d |-> 1]
RAdd(a, b) == Rat(a.n * b.d + b.n * a.d, a.d * b.d)
RMul(a, b) == Rat(a.n * b.n, a.d * b.d)
RDiv(a, b) == Rat(a.n * b.d, a.d * b.n)
RLt(a, b) == a.n * b.d < b.n * a.d
RLe(a, b) == a.n * b.d <= b.n * a.d
RMin(a, b) == IF RLt(b, a) THEN b ELSE a
RMax(a, b) == IF RLt(a, b) THEN b ELSE a

RECURSIVE RSum(_)
RSum(s) == IF s = <<>> THEN RInt(0) ELSE RAdd(Head(s), RSum(Tail(s)))

RECURSIVE ISum(_)
ISum(s) == IF s = <<>> THEN 0 ELSE Head(s) + ISum(Tail(s))

Min2(a, b) == IF b < a THEN b ELSE a
Max2(a, b) == IF a < b THEN b ELSE a

\* ------------------------------------------------------------- enumerations
TEXT == "text"
AUDIO == "audio"
VIDEO == "video"
ModalityType == {TEXT, AUDIO, VIDEO}
ModalityOrder == <<TEXT, AUDIO, VIDEO>>

WEIGHTED_AVERAGE == "weighted_average"
MAXIMUM == "maximum"
MINIMUM == "minimum"
VOTING == "voting"
LEARNED == "learned"
FusionStrategy == {WEIGHTED_AVERAGE, MAXIMUM, MINIMUM, VOTING, LEARNED}

\* ------------------------------------------------------ weight dictionaries
\* A weights dict: keys present and the value under each (0 where absent).
ZeroVals == [m \in ModalityType |-> RInt(0)]
NoDict == [keys |-> {}, val |-> ZeroVals]

WeightInts == (0 - 1) .. MaxWeight
\* The weights arguments a caller can pass: None/{} (NoDict) or a dict
\* giving some of the modalities an integer weight.
WeightArgs ==
    { [keys |-> K, val |-> [m \in ModalityType |-> IF m \in K THEN RInt(f[m]) ELSE RInt(0)]] :
        K \in SUBSET ModalityType, f \in [ModalityType -> WeightInts] }

DefaultWeights ==
    [keys |-> ModalityType,
     val |-> [m \in ModalityType |->
                IF m = TEXT THEN Rat(45, 100)
                ELSE IF m = AUDIO THEN Rat(30, 100) ELSE Rat(25, 100)]]

MissingWeight == Rat(33, 100)
DefaultThreshold == 50

\* sum(d.values())
DictSum(d) ==
    RSum([i \in 1..3 |->
            IF ModalityOrder[i] \in d.keys THEN d.val[ModalityOrder[i]] ELSE RInt(0)])

\* np.isclose(weight_sum, 1.0) with numpy's defaults rtol = 1e-05, atol = 1e-08:
\* |weight_sum - 1.0| <= 1e-08 + 1e-05 * 1.0
IsCloseToOne(weight_sum) ==
    LET diff == RAdd(weight_sum, RInt(0 - 1))
    IN  RLe([n |-> Abs(diff.n), d |-> diff.d], Rat(1001, 100000000))

\* self.weights.get(modality, 0.33)
WeightGet(d, m) == IF m \in d.keys THEN d.val[m] ELSE MissingWeight

\* ----------------------------------------------------------------- payloads
\* An indicator string is modelled by the marker words it contains, in the
\* letter case they are written in; a list entry that is not a string (a
\* number, a dict) is the entry NonString.
NonString == {"<not a string>"}

\* str.lower() on the marker words
Lower(word) ==
    IF word = "SEVERE" THEN "severe"
    ELSE IF word = "Extreme" THEN "extreme"
    ELSE IF word = "Edge" THEN "edge"
    ELSE word

\* 'severe' in i.lower() or 'extreme' in i.lower()
IsSevere(i) == \E word \in i : Lower(word) \in {"severe", "extreme"}
\* 'edge' in i.lower()
IsEdge(i) == \E word \in i : Lower(word) = "edge"

RECURSIVE CountSevere(_)
CountSevere(inds) ==
    IF inds = <<>> THEN 0
    ELSE (IF IsSevere(Head(inds)) THEN 1 ELSE 0) + CountSevere(Tail(inds))

RECURSIVE CountEdge(_)
CountEdge(inds) ==
    IF inds = <<>> THEN 0
    ELSE (IF IsEdge(Head(inds)) THEN 1 ELSE 0) + CountEdge(Tail(inds))

\* i.lower() raises AttributeError on an entry that is not a string
HasNonString(inds) == \E k \in 1..Len(inds) : inds[k] = NonString

\* A payload (or a block nested in it) is a record: null says it is None,
\* mapping that it is a dict (a truthy object of another type otherwise),
\* keys the keys present, nulls the keys present whose value is None.
\* bool(x): neither None nor an empty dict
Truthy(p) == ~p.null /\ (~p.mapping \/ p.keys # {})

\* the ml_prediction block of a text result
NoML == [null |-> TRUE, mapping |-> TRUE, keys |-> {}, nulls |-> {},
         fake_probability |-> 0, confidence |-> 0,
         clickbait_indicators |-> 0, credibility_markers |-> 0]
ML(p, c, click, cred) ==
    [null |-> FALSE, mapping |-> TRUE,
     keys |-> {"fake_probability", "confidence", "features"}, nulls |-> {},
     fake_probability |-> p, confidence |-> c,
     clickbait_indicators |-> click, credibility_markers |-> cred]

\* a text result: manipulation_indicators is the length of the list,
\* compound the sentiment_analysis['compound'] value in hundredths
TextNone == [null |-> TRUE, mapping |-> TRUE, keys |-> {}, nulls |-> {},
             ml_prediction |-> NoML,
             manipulation_indicators |-> 0, compound |-> 0]
TextEmpty == [TextNone EXCEPT !.null = FALSE]
TextResult(ml, m, comp) ==
    [null |-> FALSE, mapping |-> TRUE,
     keys |-> {"ml_prediction", "manipulation_indicators", "sentiment_analysis"},
     nulls |-> {},
     ml_prediction |-> ml, manipulation_indicators |-> m, compound |-> comp]

\* the deepfake_detection block of an audio or video result
NoDF == [null |-> TRUE, mapping |-> TRUE, keys |-> {}, nulls |-> {},
         authenticity_score |-> 0, confidence |-> 0, indicators |-> <<>>]
DF(score, conf, inds) ==
    [null |-> FALSE, mapping |-> TRUE,
     keys |-> {"authenticity_score", "confidence", "indicators"}, nulls |-> {},
     authenticity_score |-> score, confidence |-> conf, indicators |-> inds]

\* an audio result: clipping_percentage in tenths of a percent
AudioNone == [null |-> TRUE, mapping |-> TRUE, keys |-> {}, nulls |-> {},
              deepfake_detection |-> NoDF,
              snr_db |-> 0, clipping_percentage |-> 0]
AudioEmpty == [AudioNone EXCEPT !.null = FALSE]
AudioDF(df) ==
    [null |-> FALSE, mapping |-> TRUE, keys |-> {"deepfake_detection"}, nulls |-> {},
     deepfake_detection |-> df,
     snr_db |-> 0, clipping_percentage |-> 0]
AudioQuality(snr, clip) ==
    [null |-> FALSE, mapping |-> TRUE, keys |-> {"quality"}, nulls |-> {},
     deepfake_detection |-> NoDF,
     snr_db |-> snr, clipping_percentage |-> clip]

\* a video result: video_info['duration'] in tenths of a second
VideoNone == [null |-> TRUE, mapping |-> TRUE, keys |-> {}, nulls |-> {},
              deepfake_detection |-> NoDF,
              sharpness |-> 0, scene_change_count |-> 0, duration |-> 0]
VideoEmpty == [VideoNone EXCEPT !.null = FALSE]
VideoDF(df) ==
    [null |-> FALSE, mapping |-> TRUE, keys |-> {"deepfake_detection"}, nulls |-> {},
     deepfake_detection |-> df,
     sharpness |-> 0, scene_change_count |-> 0, duration |-> 0]
VideoQuality(sharp, scenes, dur) ==
    [null |-> FALSE, mapping |-> TRUE,
     keys |-> {"quality_metrics", "scene_change_count", "video_info"}, nulls |-> {},
     deepfake_detection |-> NoDF,
     sharpness |-> sharp, scene_change_count |-> scenes, duration |-> dur]

\* the same payload with the keys ks present and holding None
WithNulls(p, ks) == [p EXCEPT !.keys = @ \cup ks, !.nulls = ks]
\* a truthy object that is no dict (a list, a string, a model object)
NotMapping(p) == [p EXCEPT !.null = FALSE, !.mapping = FALSE]

\* --------------------------------------------------------------- extractors
\* Each returns [raised |-> FALSE, score, confidence, weight], or
\* [raised |-> TRUE] where the code raises AttributeError or TypeError;
\* w is self.weights.

\* mutant of ClickbaitBoost: the boost already applies at 3 indicators
ClickbaitBoost_FromThree(confidence, clickbait_indicators) ==
    IF clickbait_indicators >= 3 THEN Min2(confidence + 10, 95) ELSE confidence

\* if features.get('clickbait_indicators', 0) > 3: confidence = min(...)
ClickbaitBoost(confidence, clickbait_indicators) ==
    IF clickbait_indicators > 3 THEN Min2(confidence + 10, 95) ELSE confidence

\* if features.get('credibility_markers', 0) > 2: credibility = min(...)
CredibilityBoost(credibility, credibility_markers) ==
    IF credibility_markers > 2 THEN Min2(credibility + 5, 100) ELSE credibility

\* mutant of FallbackCredibility: the sentiment penalty taken off after the
\* floor of 10
FallbackCredibility_PenaltyAfterFloor(manipulation_count, compound) ==
    Max2(10, 65 - manipulation_count * 12) - (IF compound > 80 THEN 8 ELSE 0)

\* max(10, base_credibility - manipulation_penalty); compound is
\* abs(sentiment.get('compound', 0)), or 0 when sentiment is falsy
FallbackCredibility(manipulation_count, compound) ==
    Max2(10, 65 - (manipulation_count * 12 + (IF compound > 80 THEN 8 ELSE 0)))

_extract_text_score(text_result, w) ==
    LET ml == text_result.ml_prediction
        useML == "ml_prediction" \in text_result.keys /\ Truthy(ml)
        fake_prob == IF "fake_probability" \in ml.keys THEN ml.fake_probability ELSE 50
        conf0 == IF "confidence" \in ml.keys THEN ml.confidence ELSE 50
        click == IF "features" \in ml.keys THEN ml.clickbait_indicators ELSE 0
        cred == IF "features" \in ml.keys THEN ml.credibility_markers ELSE 0
        count == IF "manipulation_indicators" \in text_result.keys
                 THEN text_result.manipulation_indicators ELSE 0
        compound == IF "sentiment_analysis" \in text_result.keys
                       /\ "sentiment_analysis" \notin text_result.nulls
                    THEN Abs(text_result.compound) ELSE 0
        raises ==
            IF ~text_result.mapping THEN TRUE
            ELSE IF useML
                 THEN ~ml.mapping \/ "fake_probability" \in ml.nulls
                      \/ "features" \in ml.nulls
                 ELSE "manipulation_indicators" \in text_result.nulls
    IN  IF raises THEN [raised |-> TRUE]
        ELSE [raised |-> FALSE,
              score |-> IF useML THEN CredibilityBoost(100 - fake_prob, cred)
                        ELSE FallbackCredibility(count, compound),
              confidence |-> IF useML THEN ClickbaitBoost(conf0, click)
                             ELSE 55 + Min2(count * 5, 25),
              weight |-> WeightGet(w, TEXT)]

\* mutant of SevereBoost: one step whatever the number of severe indicators
SevereBoost_Once(confidence, severe_count, step, cap) ==
    IF severe_count > 0 THEN Min2(confidence + step, cap) ELSE confidence

\* if severe_count > 0: confidence = min(confidence + severe_count * step, cap)
SevereBoost(confidence, severe_count, step, cap) ==
    IF severe_count > 0 THEN Min2(confidence + severe_count * step, cap) ELSE confidence

\* the df.get / indicators part shared by the audio and the video extractor
DFRaises(df) ==
    ~df.mapping \/ "indicators" \in df.nulls
    \/ ("indicators" \in df.keys /\ HasNonString(df.indicators))

_extract_audio_score(audio_result, w) ==
    LET df == audio_result.deepfake_detection
        useDF == "deepfake_detection" \in audio_result.keys /\ Truthy(df)
        auth == IF "authenticity_score" \in df.keys THEN df.authenticity_score ELSE 50
        conf0 == IF "confidence" \in df.keys THEN df.confidence ELSE 50
        inds == IF "indicators" \in df.keys THEN df.indicators ELSE <<>>
        severe_count == CountSevere(inds)
        snr == IF "quality" \in audio_result.keys THEN audio_result.snr_db ELSE 20
        clipping == IF "quality" \in audio_result.keys
                    THEN audio_result.clipping_percentage ELSE 0
        raises ==
            IF ~audio_result.mapping THEN TRUE
            ELSE IF useDF THEN DFRaises(df)
                 ELSE "quality" \in audio_result.nulls
    IN  IF raises THEN [raised |-> TRUE]
        ELSE [raised |-> FALSE,
              score |-> IF useDF THEN auth
                        ELSE 70 - (IF snr < 15 THEN 15 ELSE 0)
                                - (IF snr > 50 THEN 10 ELSE 0)
                                - (IF clipping > 10 THEN 10 ELSE 0),
              confidence |-> IF useDF THEN SevereBoost(conf0, severe_count, 8, 92)
                             ELSE 50,
              weight |-> WeightGet(w, AUDIO)]

\* mutant of EdgeBoost: the boost added once per edge indicator
EdgeBoost_PerIndicator(confidence, edge_artifacts) ==
    IF edge_artifacts > 0 THEN Min2(confidence + edge_artifacts * 10, 90) ELSE confidence

\* if edge_artifacts > 0: confidence = min(confidence + 0.10, 0.90)
EdgeBoost(confidence, edge_artifacts) ==
    IF edge_artifacts > 0 THEN Min2(confidence + 10, 90) ELSE confidence

\* mutant of SceneRateHigh: the duration taken as it is, without max(.., 1)
SceneRateHigh_Unfloored(scene_count, duration) == scene_count * 10 > 5 * duration

\* scene_count / max(duration, 1) > 5, duration in tenths of a second
SceneRateHigh(scene_count, duration) == scene_count * 10 > 5 * Max2(duration, 10)

_extract_video_score(video_result, w) ==
    LET df == video_result.deepfake_detection
        useDF == "deepfake_detection" \in video_result.keys /\ Truthy(df)
        auth == IF "authenticity_score" \in df.keys THEN df.authenticity_score ELSE 50
        conf0 == IF "confidence" \in df.keys THEN df.confidence ELSE 50
        inds == IF "indicators" \in df.keys THEN df.indicators ELSE <<>>
        severe_count == CountSevere(inds)
        edge_artifacts == CountEdge(inds)
        sharp == IF "quality_metrics" \in video_result.keys THEN video_result.sharpness ELSE 0
        scene_count == IF "scene_change_count" \in video_result.keys
                       THEN video_result.scene_change_count ELSE 0
        duration == IF "video_info" \in video_result.keys THEN video_result.duration ELSE 10
        raises ==
            IF ~video_result.mapping THEN TRUE
            ELSE IF useDF THEN DFRaises(df)
                 ELSE video_result.nulls
                      \cap {"quality_metrics", "video_info", "scene_change_count"} # {}
    IN  IF raises THEN [raised |-> TRUE]
        ELSE [raised |-> FALSE,
              score |-> IF useDF THEN auth
                        ELSE 70 - (IF SceneRateHigh(scene_count, duration) THEN 15 ELSE 0)
                                - (IF sharp < 30 THEN 10 ELSE 0),
              confidence |-> IF useDF
                             THEN EdgeBoost(SevereBoost(conf0, severe_count, 7, 88),
                                            edge_artifacts)
                             ELSE 50,
              weight |-> WeightGet(w, VIDEO)]

\* -------------------------------------------------------------- constructor
\* MultiModalFusionEngine.__init__.  The engine holds a REFERENCE to a weights
\* dict: "passed" is the dict object the caller passed in (kept as it is when
\* its sum is close to 1.0), "own" a dict object the constructor created (the
\* defaults, or the normalized copy).  A zero sum makes v/weight_sum raise
\* ZeroDivisionError.
\* mutant of NormalizedCopy: the weights are kept as passed, not divided
NormalizedCopy_Undivided(d, weight_sum) == d

NormalizedCopy(d, weight_sum) ==
    [keys |-> d.keys,
     val |-> [m \in ModalityType |->
                IF m \in d.keys THEN RDiv(d.val[m], weight_sum) ELSE RInt(0)]]

NewEngine(strategy, weights, confidence_threshold) ==
    LET defaulted == weights.keys = {}
        w0 == IF defaulted THEN DefaultWeights ELSE weights
        weight_sum == DictSum(w0)
        close == IsCloseToOne(weight_sum)
        ref == IF close /\ ~defaulted THEN "passed" ELSE "own"
    IN  IF ~close /\ weight_sum.n = 0
        THEN [raised |-> TRUE]
        ELSE [raised |-> FALSE,
              engine |-> [strategy |-> strategy,
                          confidence_threshold |-> confidence_threshold,
                          weights |-> ref],
              heap |-> [passed |-> weights,
                        own |-> IF close
                                THEN (IF defaulted THEN DefaultWeights ELSE NoDict)
                                ELSE NormalizedCopy(w0, weight_sum)]]

\* --------------------------------------------------------- fusion strategies
\* modalities is the dict of extracted entries in insertion order
\* (TEXT, AUDIO, VIDEO): a sequence of [modality, score, confidence, weight].
Scores(modalities) == [i \in 1..Len(modalities) |-> modalities[i].score]
Confidences(modalities) == [i \in 1..Len(modalities) |-> modalities[i].confidence]
Weights(modalities) == [i \in 1..Len(modalities) |-> modalities[i].weight]

\* np.std(scores) ** 2: the mean of the squared deviations from the mean
StdSquared(scores) ==
    LET n == Len(scores)
        total == ISum(scores)
        dev2 == [i \in 1..n |-> (n * scores[i] - total) * (n * scores[i] - total)]
    IN  Rat(ISum(dev2), n * n * n)

StdBelow(scores, k) == RLt(StdSquared(scores), RInt(k * k))
StdAbove(scores, k) == RLt(RInt(k * k), StdSquared(scores))

\* mutant of ConsistencyAdjust: the bounds 15 and 35 taken as inclusive
ConsistencyAdjust_Inclusive(weighted_confidence, scores) ==
    IF Len(scores) > 1
    THEN IF ~StdAbove(scores, 15)
         THEN RMin(RAdd(weighted_confidence, RInt(10)), RInt(95))
         ELSE IF ~StdBelow(scores, 35)
              THEN RMax(RAdd(weighted_confidence, RInt(0 - 10)), RInt(35))
              ELSE weighted_confidence
    ELSE weighted_confidence

\* the cross-modal consistency bonus of _weighted_average_fusion
ConsistencyAdjust(weighted_confidence, scores) ==
    IF Len(scores) > 1
    THEN IF StdBelow(scores, 15)
         THEN RMin(RAdd(weighted_confidence, RInt(10)), RInt(95))
         ELSE IF StdAbove(scores, 35)
              THEN RMax(RAdd(weighted_confidence, RInt(0 - 10)), RInt(35))
              ELSE weighted_confidence
    ELSE weighted_confidence

\* mutant of WeightedSum: the weights are not renormalized over the present
\* modalities
WeightedSum_Unnormalized(values, weights, available_weight_sum) ==
    RSum([i \in 1..Len(values) |-> RMul(RInt(values[i]), weights[i])])

\* sum((m[field] * m['weight']) / available_weight_sum for m in modalities)
WeightedSum(values, weights, available_weight_sum) ==
    RSum([i \in 1..Len(values) |->
            RDiv(RMul(RInt(values[i]), weights[i]), available_weight_sum)])

_weighted_average_fusion(modalities) ==
    LET available_weight_sum == RSum(Weights(modalities))
    IN  IF available_weight_sum.n = 0
        THEN [raised |-> TRUE]
        ELSE [raised |-> FALSE,
              score |-> WeightedSum(Scores(modalities), Weights(modalities),
                                    available_weight_sum),
              confidence |->
                  ConsistencyAdjust(
                      WeightedSum(Confidences(modalities), Weights(modalities),
                                  available_weight_sum),
                      Scores(modalities))]

\* mutant of ArgMax: the last index holding the maximum
ArgMax_Last(scores) ==
    CHOOSE i \in 1..Len(scores) :
        /\ \A j \in 1..Len(scores) : scores[j] <= scores[i]
        /\ \A j \in (i + 1)..Len(scores) : scores[j] < scores[i]

\* np.argmax / np.argmin: the first index holding the extreme value
ArgMax(scores) ==
    CHOOSE i \in 1..Len(scores) :
        /\ \A j \in 1..Len(scores) : scores[j] <= scores[i]
        /\ \A j \in 1..(i - 1) : scores[j] < scores[i]

ArgMin(scores) ==
    CHOOSE i \in 1..Len(scores) :
        /\ \A j \in 1..Len(scores) : scores[j] >= scores[i]
        /\ \A j \in 1..(i - 1) : scores[j] > scores[i]

_maximum_fusion(modalities) ==
    LET max_idx == ArgMax(Scores(modalities))
    IN  [raised |-> FALSE,
         score |-> RInt(Scores(modalities)[max_idx]),
         confidence |-> RInt(Confidences(modalities)[max_idx])]

_minimum_fusion(modalities) ==
    LET min_idx == ArgMin(Scores(modalities))
    IN  [raised |-> FALSE,
         score |-> RInt(Scores(modalities)[min_idx]),
         confidence |-> RInt(Confidences(modalities)[min_idx])]

\* mutant of Vote: a score of exactly 50 counted as a real vote
Vote_FiftyIsReal(score) == IF score >= 50 THEN 1 ELSE 0

Vote(score) == IF score > 50 THEN 1 ELSE 0

_voting_fusion(modalities) ==
    LET votes == [i \in 1..Len(modalities) |-> Vote(modalities[i].score)]
        real_votes == ISum(votes)
        fake_votes == Len(votes) - real_votes
    IN  [raised |-> FALSE,
         score |-> IF real_votes > fake_votes THEN RInt(75)
                   ELSE IF fake_votes > real_votes THEN RInt(25) ELSE RInt(50),
         confidence |-> Rat(ISum(Confidences(modalities)), Len(modalities))]

\* mutant of _determine_verdict: a confidence equal to the threshold is gated
_determine_verdict_GateInclusive(score, confidence, confidence_threshold) ==
    IF RLe(confidence, RInt(confidence_threshold)) THEN "UNCERTAIN"
    ELSE IF RLe(RInt(70), score) THEN "REAL"
    ELSE IF RLe(score, RInt(30)) THEN "FAKE"
    ELSE "UNCERTAIN"

_determine_verdict(score, confidence, confidence_threshold) ==
    IF RLt(confidence, RInt(confidence_threshold)) THEN "UNCERTAIN"
    ELSE IF RLe(RInt(70), score) THEN "REAL"
    ELSE IF RLe(score, RInt(30)) THEN "FAKE"
    ELSE "UNCERTAIN"

\* The summary text is kept as its kind; the level and the recommendation
\* (keyed by the verdict) are computed as the code computes them.
_build_explanation(score, confidence, verdict) ==
    [summary |-> "Overall Assessment",
     verdict |-> verdict,
     confidence_level |->
         IF RLe(RInt(80), confidence) THEN "Very High"
         ELSE IF RLe(RInt(60), confidence) THEN "High"
         ELSE IF RLe(RInt(40), confidence) THEN "Medium"
         ELSE "Low",
     recommendation |-> verdict]

\* mutant of _no_data_result: the neutral score reported as 0
_no_data_result_ZeroScore(engine) ==
    [raised |-> FALSE,
     final_score |-> RInt(0),
     final_verdict |-> "UNCERTAIN",
     confidence |-> RInt(0),
     modality_contributions |-> [m \in {} |-> 0],
     explanation |-> [summary |-> "No analysis data available",
                      verdict |-> "UNCERTAIN",
                      confidence_level |-> "None",
                      recommendation |-> "Unable to analyze"],
     detailed_analysis |-> [m \in {} |-> 0],
     fusion_strategy |-> engine.strategy,
     weights_used |-> engine.weights]

_no_data_result(engine) ==
    [raised |-> FALSE,
     final_score |-> RInt(50),
     final_verdict |-> "UNCERTAIN",
     confidence |-> RInt(0),
     modality_contributions |-> [m \in {} |-> 0],
     explanation |-> [summary |-> "No analysis data available",
                      verdict |-> "UNCERTAIN",
                      confidence_level |-> "None",
                      recommendation |-> "Unable to analyze"],
     detailed_analysis |-> [m \in {} |-> 0],
     fusion_strategy |-> engine.strategy,
     weights_used |-> engine.weights]

\* The modalities dict of fuse: an entry for each payload that is truthy.
Collect(text_result, audio_result, video_result, w) ==
    (IF Truthy(text_result)
     THEN <<[modality |-> TEXT] @@ _extract_text_score(text_result, w)>> ELSE <<>>)
    \o (IF Truthy(audio_result)
        THEN <<[modality |-> AUDIO] @@ _extract_audio_score(audio_result, w)>> ELSE <<>>)
    \o (IF Truthy(video_result)
        THEN <<[modality |-> VIDEO] @@ _extract_video_score(video_result, w)>> ELSE <<>>)

ApplyStrategy(strategy, modalities) ==
    IF strategy = WEIGHTED_AVERAGE THEN _weighted_average_fusion(modalities)
    ELSE IF strategy = MAXIMUM THEN _maximum_fusion(modalities)
    ELSE IF strategy = MINIMUM THEN _minimum_fusion(modalities)
    ELSE IF strategy = VOTING THEN _voting_fusion(modalities)
    ELSE _weighted_average_fusion(modalities)

Contributions(modalities) ==
    [m \in {modalities[i].modality : i \in 1..Len(modalities)} |->
        LET e == modalities[CHOOSE i \in 1..Len(modalities) : modalities[i].modality = m]
        IN  [score |-> e.score, confidence |-> e.confidence, weight |-> e.weight]]

\* MultiModalFusionEngine.fuse on an engine whose weights dict currently is w
fuse(engine, w, text_result, audio_result, video_result) ==
    LET modalities == Collect(text_result, audio_result, video_result, w)
        fused == ApplyStrategy(engine.strategy, modalities)
        verdict == _determine_verdict(fused.score, fused.confidence,
                                      engine.confidence_threshold)
    IN  IF \E i \in 1..Len(modalities) : modalities[i].raised THEN [raised |-> TRUE]
        ELSE IF modalities = <<>> THEN _no_data_result(engine)
        ELSE IF fused.raised THEN [raised |-> TRUE]
        ELSE [raised |-> FALSE,
              final_score |-> fused.score,
              final_verdict |-> verdict,
              confidence |-> fused.confidence,
              modality_contributions |-> Contributions(modalities),
              explanation |-> _build_explanation(fused.score, fused.confidence, verdict),
              detailed_analysis |-> [text |-> text_result, audio |-> audio_result,
                                     video |-> video_result],
              fusion_strategy |-> engine.strategy,
              weights_used |-> engine.weights]

\* ------------------------------------------------------------------- inputs
\* The payloads the fuse calls of the model draw from: absent, empty, and
\* analyzer results covering the score and confidence cases of the strategies.
FuseTexts ==
    {TextNone, TextEmpty,
     TextResult(ML(10, 90, 0, 0), 0, 0),
     TextResult(ML(20, 60, 0, 0), 1, 0),
     TextResult(ML(50, 30, 0, 0), 0, 0),
     TextResult(ML(90, 30, 4, 0), 2, 90),
     TextResult(NoML, 1, 0)}

FuseAudios ==
    {AudioNone, AudioEmpty,
     AudioDF(DF(92, 90, <<>>)),
     AudioDF(DF(80, 100, <<>>)),
     AudioDF(DF(60, 50, <<{"severe"}>>)),
     AudioDF(DF(20, 30, <<>>)),
     AudioQuality(10, 0)}

FuseVideos ==
    {VideoNone, VideoEmpty,
     VideoDF(DF(90, 90, <<>>)),
     VideoDF(DF(80, 30, <<>>)),
     VideoDF(DF(50, 50, <<{"edge"}>>)),
     VideoDF(DF(20, 60, <<>>)),
     VideoQuality(20, 0, 100)}

\* -------------------------------------------------------------------- state
VARIABLES
    instance,   \* _fusion_engine_instance: NoEngine or the engine record
    heap,       \* the weights dict objects: [passed |-> dict, own |-> dict]
    nmut,       \* caller-side dict modifications made since the engine was built
    call,       \* the call in progress: its operation and arguments
    ret,        \* what the call returned (or that it raised)
    analysis_store,  \* text/audio/video.analysis_store: id -> record
    tasks,      \* the background tasks added and not yet run: <<store, id>>
    remembered, \* a fuse call on the engine the caller keeps the result of
    engines,    \* the engine objects built so far, the last one being the singleton
    inflight    \* a fuse call in progress on another thread: its self and position

vars == <<instance, heap, nmut, call, ret, analysis_store, tasks, remembered, engines, inflight>>

NoEngine == [strategy |-> "none", confidence_threshold |-> 0, weights |-> "none"]
Idle == [op |-> "none"]

\* AnalysisStatus, and the records of the three analysis stores; the ids
\* save_upload_file hands out are 1..MaxAnalyses in each store
PENDING == "pending"
PROCESSING == "processing"
COMPLETED == "completed"
FAILED == "failed"
AnalysisIds == 1..MaxAnalyses
NoRecord == [status |-> "absent"]
EmptyStore == [id \in AnalysisIds |-> NoRecord]

\* the weights dict the engine currently refers to
EngineWeights == heap[instance.weights]

Init ==
    /\ instance = NoEngine
    /\ heap = [passed |-> NoDict, own |-> NoDict]
    /\ nmut = 0
    /\ call = Idle
    /\ ret = [raised |-> FALSE]
    /\ analysis_store = [text |-> EmptyStore, audio |-> EmptyStore, video |-> EmptyStore]
    /\ tasks = {}
    /\ remembered = Idle
    /\ engines = <<>>
    /\ inflight = Idle

\* _fusion_engine_instance = MultiModalFusionEngine(strategy, weights)
Build(strategy, weights) ==
    LET made == NewEngine(strategy, weights, DefaultThreshold)
    IN  IF made.raised
        THEN /\ ret' = [raised |-> TRUE, created |-> FALSE]
             /\ UNCHANGED <<instance, heap, nmut, analysis_store, tasks, remembered, engines, inflight>>
        ELSE /\ instance' = made.engine
             /\ heap' = made.heap
             /\ nmut' = 0
             /\ ret' = [raised |-> FALSE, created |-> TRUE]
             /\ UNCHANGED <<analysis_store, tasks, remembered, engines, inflight>>

\* get_fusion_engine(strategy, weights, force_reload): the strategy and the
\* weights are read only when an engine is built
GetFusionEngine ==
    \E force_reload \in BOOLEAN :
        /\ call = Idle
        /\ call' = [op |-> "get_fusion_engine", force_reload |-> force_reload]
        /\ IF instance = NoEngine \/ force_reload
           THEN \E strategy \in FusionStrategy, weights \in WeightArgs :
                    Build(strategy, weights)
           ELSE /\ ret' = [raised |-> FALSE, created |-> FALSE]
                /\ UNCHANGED <<instance, heap, nmut, analysis_store, tasks, remembered, engines, inflight>>

\* fusion_engine.fuse(text_result, audio_result, video_result)
FuseCall_WritesWeights(text_result, audio_result, video_result) ==
    /\ call = Idle
    /\ instance # NoEngine
    /\ call' = [op |-> "fuse", text |-> text_result, audio |-> audio_result,
                video |-> video_result]
    /\ ret' = fuse(instance, EngineWeights, text_result, audio_result, video_result)
    /\ heap' = [heap EXCEPT ![instance.weights] =
                    [keys |-> @.keys,
                     val |-> [@.val EXCEPT ![TEXT] =
                                 IF Truthy(text_result) THEN @ ELSE RInt(0)]]]
    /\ UNCHANGED <<instance, nmut, analysis_store, tasks, remembered, engines, inflight>>

FuseCall(text_result, audio_result, video_result) ==
    /\ call = Idle
    /\ instance # NoEngine
    /\ call' = [op |-> "fuse", text |-> text_result, audio |-> audio_result,
                video |-> video_result]
    /\ ret' = fuse(instance, EngineWeights, text_result, audio_result, video_result)
    /\ UNCHANGED <<instance, heap, nmut, analysis_store, tasks, remembered, engines, inflight>>

Fuse ==
    \E t \in FuseTexts, a \in FuseAudios, v \in FuseVideos : FuseCall(t, a, v)

\* the synchronous caller takes the returned value and is free to call again
Return ==
    /\ call # Idle
    /\ call' = Idle
    /\ ret' = [raised |-> FALSE]
    /\ UNCHANGED <<instance, heap, nmut, analysis_store, tasks, remembered, engines, inflight>>

Next == GetFusionEngine \/ Fuse \/ Return

Spec == Init /\ [][Next]_vars

\* ------------------------------------------- the caller's dict references
\* The caller can write to every dict object it holds a reference to: the dict
\* it passed to the constructor and the 'weights_used' value of the result
\* it has in hand.
CallerRefs ==
    (IF heap.passed.keys # {} THEN {"passed"} ELSE {})
    \cup (IF call.op = "fuse" /\ ~ret.raised THEN {ret.weights_used} ELSE {})

\* d[m] = v
SetItem(d, m, v) ==
    [keys |-> d.keys \cup {m}, val |-> [d.val EXCEPT ![m] = RInt(v)]]

MutateWeights ==
    \E ref \in CallerRefs, m \in ModalityType, v \in WeightInts :
        /\ nmut < MaxMutations
        /\ nmut' = nmut + 1
        /\ heap' = [heap EXCEPT ![ref] = SetItem(@, m, v)]
        /\ UNCHANGED <<instance, call, ret, analysis_store, tasks, remembered, engines, inflight>>

\* fuse calls on a small set of payloads, enough to read the weights in use
ProbeTexts == {TextNone, TextResult(ML(20, 60, 0, 0), 1, 0)}
ProbeAudios == {AudioNone, AudioDF(DF(60, 50, <<{"severe"}>>))}
ProbeVideos == {VideoNone, VideoDF(DF(20, 60, <<>>))}

FuseProbe ==
    \E t \in ProbeTexts, a \in ProbeAudios, v \in ProbeVideos : FuseCall(t, a, v)

NextAlias == GetFusionEngine \/ FuseProbe \/ Return \/ MutateWeights

SpecAlias == Init /\ [][NextAlias]_vars

\* -------------------------------------------------- a caller that compares
\* The engine is created once; the caller keeps the result of one fuse call
\* on it, with the configuration the engine had, and notes whether it has
\* made a fuse call with other payloads since.
CreateEngine == instance = NoEngine /\ GetFusionEngine

SamePayloads(c, d) == c.text = d.text /\ c.audio = d.audio /\ c.video = d.video

Remember ==
    /\ call.op = "fuse"
    /\ IF remembered = Idle
       THEN remembered' = [op |-> "fuse", text |-> call.text, audio |-> call.audio,
                           video |-> call.video, ret |-> ret, engine |-> instance,
                           weights |-> EngineWeights, others |-> FALSE]
       ELSE /\ ~SamePayloads(call, remembered)
            /\ ~remembered.others
            /\ remembered' = [remembered EXCEPT !.others = TRUE]
    /\ UNCHANGED <<instance, heap, nmut, call, ret, analysis_store, tasks, engines, inflight>>

NextPure == CreateEngine \/ FuseProbe \/ Remember \/ Return

SpecPure == Init /\ [][NextPure]_vars

\* ------------------------------------------- a reload during a fuse call
\* One thread calls get_fusion_engine(force_reload=True, ...) while another
\* is inside fuse. The engine objects are kept apart: engines[i] is the i-th
\* object built, with the dict objects it refers to, and the singleton is the
\* last one. The fuse call holds its self and reads self.weights (in the
\* extractors), self.strategy (dispatch), self.confidence_threshold (verdict)
\* and self.strategy.value and self.weights (result) in four steps.
MaxEngines == 2
ReloadStrategies == {WEIGHTED_AVERAGE, MAXIMUM}
TextAndAudio ==
    [keys |-> ModalityType,
     val |-> [m \in ModalityType |-> IF m = VIDEO THEN RInt(0) ELSE RInt(1)]]
ReloadWeights == {NoDict, TextAndAudio}

\* _fusion_engine_instance = MultiModalFusionEngine(...): a new object
Reloaded_InPlace(objects, made) ==
    IF objects = <<>> THEN <<made>>
    ELSE [objects EXCEPT ![Len(objects)] = made]

Reloaded(objects, made) == Append(objects, made)

ReloadEngine ==
    \E strategy \in ReloadStrategies, weights \in ReloadWeights :
        LET made == NewEngine(strategy, weights, DefaultThreshold)
        IN  /\ Len(engines) < MaxEngines
            /\ ~made.raised
            /\ engines' = Reloaded(engines, [engine |-> made.engine, heap |-> made.heap])
            /\ instance' = made.engine
            /\ heap' = made.heap
            /\ nmut' = 0
            /\ UNCHANGED <<call, ret, analysis_store, tasks, remembered, inflight>>

NoReads ==
    [weights |-> NoDict, strategy |-> "none", confidence_threshold |-> 0,
     strategy_value |-> "none", weights_used |-> "none", weights_dict |-> NoDict]

\* the object the fuse call in progress has as self
Self == engines[inflight.self]

\* fusion_engine = get_fusion_engine(); fusion_engine.fuse(...) is entered
FuseBegin ==
    \E t \in ProbeTexts, a \in ProbeAudios, v \in ProbeVideos :
        /\ inflight = Idle
        /\ call = Idle
        /\ engines # <<>>
        /\ inflight' = [op |-> "fuse", pc |-> "extract", self |-> Len(engines),
                        started_on |-> engines[Len(engines)],
                        text |-> t, audio |-> a, video |-> v, reads |-> NoReads]
        /\ UNCHANGED <<instance, heap, nmut, call, ret, analysis_store, tasks,
                       remembered, engines>>

FuseStep(pc, next, reads) ==
    /\ inflight # Idle
    /\ inflight.pc = pc
    /\ inflight' = [inflight EXCEPT !.pc = next, !.reads = reads]
    /\ UNCHANGED <<instance, heap, nmut, call, ret, analysis_store, tasks,
                   remembered, engines>>

\* lines 86-91: the extractors read self.weights
FuseExtract ==
    FuseStep("extract", "dispatch",
             [inflight.reads EXCEPT !.weights = Self.heap[Self.engine.weights]])

\* lines 96-106: the dispatch reads self.strategy
FuseDispatch ==
    FuseStep("dispatch", "verdict",
             [inflight.reads EXCEPT !.strategy = Self.engine.strategy])

\* line 109: _determine_verdict reads self.confidence_threshold
FuseVerdict ==
    FuseStep("verdict", "result",
             [inflight.reads EXCEPT
                 !.confidence_threshold = Self.engine.confidence_threshold])

\* the result of a fuse call from what it read along the way
FuseFrom(reads, text_result, audio_result, video_result) ==
    LET r == fuse([strategy |-> reads.strategy,
                   confidence_threshold |-> reads.confidence_threshold,
                   weights |-> reads.weights_used],
                  reads.weights, text_result, audio_result, video_result)
    IN  IF r.raised THEN r ELSE [r EXCEPT !.fusion_strategy = reads.strategy_value]

\* lines 116-131: the result reads self.strategy.value and self.weights
FuseResult ==
    LET reads == [inflight.reads EXCEPT
                     !.strategy_value = Self.engine.strategy,
                     !.weights_used = Self.engine.weights,
                     !.weights_dict = Self.heap[Self.engine.weights]]
    IN  /\ inflight # Idle
        /\ inflight.pc = "result"
        /\ inflight' = Idle
        /\ call' = [op |-> "fuse", text |-> inflight.text, audio |-> inflight.audio,
                    video |-> inflight.video, self |-> inflight.self,
                    started_on |-> inflight.started_on, reads |-> reads,
                    singleton |-> Len(engines)]
        /\ ret' = FuseFrom(reads, inflight.text, inflight.audio, inflight.video)
        /\ UNCHANGED <<instance, heap, nmut, analysis_store, tasks, remembered, engines>>

NextReload ==
    ReloadEngine \/ FuseBegin \/ FuseExtract \/ FuseDispatch \/ FuseVerdict
    \/ FuseResult \/ Return

SpecReload == Init /\ [][NextReload]_vars

\* ------------------------------------------------------ reading a fuse call
FuseReturned == call.op = "fuse" /\ ~ret.raised
FuseRaised == call.op = "fuse" /\ ret.raised

\* the payload arguments of the fuse call, by modality
Payload(m) == IF m = TEXT THEN call.text ELSE IF m = AUDIO THEN call.audio ELSE call.video
NonNull == {m \in ModalityType : ~Payload(m).null}
Present == {m \in ModalityType : Truthy(Payload(m))}

\* the input contracts: fake probability and confidences in [0,1],
\* authenticity scores in [0,100]
InUnit(x) == 0 <= x /\ x <= 100
ValidText(t) ==
    InUnit(t.ml_prediction.fake_probability) /\ InUnit(t.ml_prediction.confidence)
    /\ InUnit(Abs(t.compound))
ValidDF(df) == InUnit(df.authenticity_score) /\ InUnit(df.confidence)
ValidPayloads ==
    ValidText(call.text) /\ ValidDF(call.audio.deepfake_detection)
    /\ ValidDF(call.video.deepfake_detection)

\* the extracted (score, confidence, weight) of a present modality, as the
\* result reports it
Contribution(m) == ret.modality_contributions[m]
Reported == DOMAIN ret.modality_contributions

\* sum over the reported modalities of f(m), in the order TEXT, AUDIO, VIDEO
SumReported(f(_)) ==
    RSum([i \in 1..3 |->
            IF ModalityOrder[i] \in Reported THEN f(ModalityOrder[i]) ELSE RInt(0)])

\* ------------------------------------------------------------------ claims

\* C1: for every engine the constructor accepts, every strategy and all
\* payloads within the input contracts, the result of fuse has final_score
\* in [0,100] and confidence in [0,1].
C1_RangesHold ==
    (FuseReturned /\ ValidPayloads) =>
        /\ RLe(RInt(0), ret.final_score) /\ RLe(ret.final_score, RInt(100))
        /\ RLe(RInt(0), ret.confidence) /\ RLe(ret.confidence, RInt(100))

\* C2: modality_contributions of a fuse result has an entry for exactly the
\* modalities whose payload argument was non-null (an empty mapping counts
\* as non-null).
C2_ContributionsExactlyNonNull ==
    FuseReturned => Reported = NonNull

\* C3: every engine the constructor returns holds weights that sum to 1,
\* whether or not the weights passed in summed to 1.
BuiltNow == call.op = "get_fusion_engine" /\ ret.created
C3_WeightsSumToOne ==
    BuiltNow => DictSum(EngineWeights) = RInt(1)

C3_Witness ==
    /\ BuiltNow
    /\ heap.passed.keys # {}
    /\ DictSum(heap.passed) # RInt(1)
    /\ DictSum(EngineWeights) = RInt(1)

\* C4: a weight configuration without a positive sum is rejected by the
\* constructor, and that is the only fatal condition: no fuse call on a
\* constructed engine fails because of its weights.
C4_FuseNeverFails ==
    call.op = "fuse" => ~ret.raised

\* C5: the weights an engine instance uses never change after construction:
\* no fuse call, no get_fusion_engine call without force_reload and no
\* caller-side modification of the dict passed to the constructor or of the
\* 'weights_used' value returned by fuse alters them.
C5_WeightsNeverChange ==
    [][(instance # NoEngine /\ ~BuiltNow') => EngineWeights' = EngineWeights]_vars

\* C6: weighted-average fusion of exactly one supplied payload returns that
\* modality's extracted score and confidence, for every weight configuration
\* the constructor accepts.
C6_SingleModalityExact ==
    (call.op = "fuse" /\ instance.strategy = WEIGHTED_AVERAGE
        /\ Cardinality(NonNull) = 1 /\ Present = NonNull) =>
        /\ ~ret.raised
        /\ \A m \in Present :
            /\ ret.final_score = RInt(Contribution(m).score)
            /\ ret.confidence = RInt(Contribution(m).confidence)

\* C7: weighted-average fusion renormalizes the weights over the present
\* modalities (they then sum to 1), final_score is the sum of score times
\* renormalized weight, and the confidence before the consistency adjustment
\* is the sum of confidence times renormalized weight.
PresentWeightSum == SumReported(LAMBDA m : Contribution(m).weight)
Renormalized(m) == RDiv(Contribution(m).weight, PresentWeightSum)
MeanScore == SumReported(LAMBDA m : RMul(RInt(Contribution(m).score), Renormalized(m)))
MeanConfidence ==
    SumReported(LAMBDA m : RMul(RInt(Contribution(m).confidence), Renormalized(m)))

\* population variance of the reported scores: E[s^2] - E[s]^2
ReportedScores == {Contribution(m).score : m \in Reported}
SumScores == SumReported(LAMBDA m : RInt(Contribution(m).score))
SumSquares == SumReported(LAMBDA m : RInt(Contribution(m).score * Contribution(m).score))
Variance ==
    LET n == RInt(Cardinality(Reported))
    IN  RAdd(RDiv(SumSquares, n),
             RMul(RInt(0 - 1), RMul(RDiv(SumScores, n), RDiv(SumScores, n))))
NoAdjustment ==
    \/ Cardinality(Reported) = 1
    \/ RLe(RInt(225), Variance) /\ RLe(Variance, RInt(1225))

WeightedReturned == FuseReturned /\ instance.strategy = WEIGHTED_AVERAGE /\ Reported # {}

C7_WeightedAverage ==
    WeightedReturned =>
        /\ SumReported(Renormalized) = RInt(1)
        /\ ret.final_score = MeanScore
        /\ NoAdjustment => ret.confidence = MeanConfidence

C7_Witness ==
    /\ WeightedReturned
    /\ Cardinality(Reported) = 2
    /\ Present # ModalityType
    /\ PresentWeightSum # RInt(1)
    /\ NoAdjustment
    /\ \E m \in Reported : RInt(Contribution(m).score) # ret.final_score

\* C8: with two or more present modalities, std < 15 gives the weighted mean
\* confidence plus 0.10 capped at 0.95, std > 35 gives it minus 0.10 floored
\* at 0.35, 15 <= std <= 35 leaves it; the score is never changed.
C8_ConsistencyAdjustment ==
    (WeightedReturned /\ Cardinality(Reported) >= 2) =>
        /\ ret.final_score = MeanScore
        /\ RLt(Variance, RInt(225)) =>
              ret.confidence = RMin(RAdd(MeanConfidence, RInt(10)), RInt(95))
        /\ RLt(RInt(1225), Variance) =>
              ret.confidence = RMax(RAdd(MeanConfidence, RInt(0 - 10)), RInt(35))
        /\ (RLe(RInt(225), Variance) /\ RLe(Variance, RInt(1225))) =>
              ret.confidence = MeanConfidence

C8_Witness ==
    /\ WeightedReturned
    /\ ReportedScores = {10, 90}
    /\ RLt(RInt(35), MeanConfidence)
    /\ ret.confidence = RAdd(MeanConfidence, RInt(0 - 10))

C8_WitnessAgree ==
    /\ WeightedReturned
    /\ ReportedScores = {90, 92}
    /\ RLt(RInt(85), MeanConfidence)
    /\ ret.confidence = RInt(95)

C8_WitnessBoundary15 ==
    WeightedReturned /\ Cardinality(Reported) = 2 /\ Variance = RInt(225)

C8_WitnessBoundary35 ==
    WeightedReturned /\ Cardinality(Reported) = 2 /\ Variance = RInt(1225)

C8_WitnessFloor ==
    /\ WeightedReturned /\ Cardinality(Reported) >= 2
    /\ RLt(RInt(1225), Variance) /\ ret.confidence = RInt(35)

\* C9: maximum fusion returns the (score, confidence) of the present modality
\* with the highest score, minimum fusion of the one with the lowest score;
\* among several with the extreme score, the first in the order TEXT, AUDIO,
\* VIDEO.
Before(a, b) ==
    \E i, j \in 1..3 : i < j /\ ModalityOrder[i] = a /\ ModalityOrder[j] = b
FirstHighest(m) ==
    /\ m \in Reported
    /\ \A o \in Reported : Contribution(o).score <= Contribution(m).score
    /\ \A o \in Reported : Before(o, m) => Contribution(o).score < Contribution(m).score
FirstLowest(m) ==
    /\ m \in Reported
    /\ \A o \in Reported : Contribution(o).score >= Contribution(m).score
    /\ \A o \in Reported : Before(o, m) => Contribution(o).score > Contribution(m).score
ReturnsPairOf(m) ==
    /\ ret.final_score = RInt(Contribution(m).score)
    /\ ret.confidence = RInt(Contribution(m).confidence)

C9_MaximumMinimum ==
    (FuseReturned /\ Reported # {}) =>
        /\ instance.strategy = MAXIMUM => \E m \in Reported : FirstHighest(m) /\ ReturnsPairOf(m)
        /\ instance.strategy = MINIMUM => \E m \in Reported : FirstLowest(m) /\ ReturnsPairOf(m)

\* a tie at the top between modalities of different confidence
C9_Witness ==
    /\ FuseReturned /\ instance.strategy = MAXIMUM
    /\ \E m, o \in Reported :
        /\ FirstHighest(m) /\ ReturnsPairOf(m)
        /\ o # m
        /\ Contribution(o).score = Contribution(m).score
        /\ Contribution(o).confidence # Contribution(m).confidence

C9_WitnessMin ==
    /\ FuseReturned /\ instance.strategy = MINIMUM
    /\ \E m, o \in Reported :
        /\ FirstLowest(m) /\ ReturnsPairOf(m)
        /\ o # m
        /\ Contribution(o).score = Contribution(m).score
        /\ Contribution(o).confidence # Contribution(m).confidence

\* C10: voting counts a score > 50 as a real vote and any other (50 included)
\* as a fake vote; final_score is 75 when real votes win, 25 when fake votes
\* win, 50 on a tie; confidence is the plain mean of the confidences.  Scores
\* {80, 60, 20} give 75 and {80, 20} give 50.
RealVotes == Cardinality({m \in Reported : Contribution(m).score > 50})
FakeVotes == Cardinality({m \in Reported : Contribution(m).score <= 50})
PlainMeanConfidence ==
    RDiv(SumReported(LAMBDA m : RInt(Contribution(m).confidence)),
         RInt(Cardinality(Reported)))

C10_Voting ==
    (FuseReturned /\ instance.strategy = VOTING /\ Reported # {}) =>
        /\ RealVotes > FakeVotes => ret.final_score = RInt(75)
        /\ FakeVotes > RealVotes => ret.final_score = RInt(25)
        /\ RealVotes = FakeVotes => ret.final_score = RInt(50)
        /\ ret.confidence = PlainMeanConfidence
        /\ (Cardinality(Reported) = 3 /\ ReportedScores = {80, 60, 20}) =>
              ret.final_score = RInt(75)
        /\ (Cardinality(Reported) = 2 /\ ReportedScores = {80, 20}) =>
              ret.final_score = RInt(50)

C10_Witness ==
    /\ FuseReturned /\ instance.strategy = VOTING
    /\ Cardinality(Reported) = 3 /\ ReportedScores = {80, 60, 20}
    /\ ret.final_score = RInt(75)

C10_WitnessTie ==
    /\ FuseReturned /\ instance.strategy = VOTING
    /\ Cardinality(Reported) = 2 /\ ReportedScores = {80, 20}
    /\ ret.final_score = RInt(50)

C10_WitnessFifty ==
    /\ FuseReturned /\ instance.strategy = VOTING
    /\ Cardinality(Reported) = 1 /\ ReportedScores = {50}
    /\ ret.final_score = RInt(25)

\* ------------------------------------------------- the verdict classifier
\* MultiModalFusionEngine(confidence_threshold = t)._determine_verdict(s, c)
\* on scores, confidences and thresholds around the cut points.
VerdictScores == {0, 20, 30, 31, 50, 69, 70, 75, 90, 100}
VerdictConfidences == {0, 30, 49, 50, 59, 60, 100}
VerdictThresholds == {0, 50, 60, 100}

DetermineVerdict ==
    \E t \in VerdictThresholds, s \in VerdictScores, c \in VerdictConfidences :
        LET made == NewEngine(WEIGHTED_AVERAGE, NoDict, t)
        IN  /\ call = Idle
            /\ call' = [op |-> "_determine_verdict", score |-> s, confidence |-> c,
                        confidence_threshold |-> made.engine.confidence_threshold]
            /\ ret' = [raised |-> FALSE,
                       verdict |-> _determine_verdict(RInt(s), RInt(c),
                                       made.engine.confidence_threshold)]
            /\ UNCHANGED <<instance, heap, nmut, analysis_store, tasks, remembered, engines, inflight>>

NextVerdict == GetFusionEngine \/ Fuse \/ Return \/ DetermineVerdict

SpecVerdict == Init /\ [][NextVerdict]_vars

\* C11: the verdict is decided by (final_score, confidence,
\* confidence_threshold) alone: confidence below the threshold gives
\* UNCERTAIN whatever the score; otherwise score >= 70 gives REAL, score <= 30
\* FAKE and a score strictly between UNCERTAIN.  (75, 0.6) is REAL, (20, 0.6)
\* FAKE, (50, 0.6) UNCERTAIN and (90, 0.3) UNCERTAIN under the default
\* threshold 0.5, and a confidence equal to the threshold passes the gate.
VerdictOf(score, confidence, threshold) ==
    IF RLt(confidence, RInt(threshold)) THEN "UNCERTAIN"
    ELSE IF RLe(RInt(70), score) THEN "REAL"
    ELSE IF RLe(score, RInt(30)) THEN "FAKE"
    ELSE "UNCERTAIN"

VerdictCall == call.op = "_determine_verdict"
VerdictCallOn(s, c, t) ==
    VerdictCall /\ call.score = s /\ call.confidence = c /\ call.confidence_threshold = t

C11_Verdict ==
    /\ VerdictCall =>
          ret.verdict = VerdictOf(RInt(call.score), RInt(call.confidence),
                                  call.confidence_threshold)
    /\ FuseReturned =>
          ret.final_verdict = VerdictOf(ret.final_score, ret.confidence,
                                        instance.confidence_threshold)
    /\ VerdictCallOn(75, 60, 50) => ret.verdict = "REAL"
    /\ VerdictCallOn(20, 60, 50) => ret.verdict = "FAKE"
    /\ VerdictCallOn(50, 60, 50) => ret.verdict = "UNCERTAIN"
    /\ VerdictCallOn(90, 30, 50) => ret.verdict = "UNCERTAIN"
    /\ (VerdictCall /\ call.confidence = call.confidence_threshold /\ call.score >= 70) =>
          ret.verdict = "REAL"

\* a fused result whose confidence equals the threshold and is classified
C11_Witness ==
    /\ FuseReturned /\ Reported # {}
    /\ ret.confidence = RInt(instance.confidence_threshold)
    /\ ret.final_verdict = "REAL"

C11_WitnessGate ==
    VerdictCallOn(75, 60, 60) /\ ret.verdict = "REAL"

C11_WitnessOverride ==
    VerdictCallOn(90, 30, 50) /\ ret.verdict = "UNCERTAIN"

\* C12: fuse with all three payloads absent returns, for every strategy and
\* weight configuration and without raising, the fixed neutral result:
\* final_score 50, verdict UNCERTAIN, confidence 0, no modality
\* contributions and the explanation saying that no data was available.
AllAbsent == call.op = "fuse" /\ NonNull = {}

C12_NoDataResult ==
    AllAbsent =>
        /\ ~ret.raised
        /\ ret.final_score = RInt(50)
        /\ ret.final_verdict = "UNCERTAIN"
        /\ ret.confidence = RInt(0)
        /\ Reported = {}
        /\ ret.explanation.summary = "No analysis data available"
        /\ ret.explanation.recommendation = "Unable to analyze"

\* on an engine whose strategy would fail on no modality and whose weights
\* are not the defaults
C12_Witness ==
    /\ AllAbsent /\ ~ret.raised
    /\ instance.strategy = MAXIMUM
    /\ EngineWeights # DefaultWeights
    /\ ret.final_score = RInt(50)

C12_WitnessZeroWeights ==
    /\ AllAbsent /\ ~ret.raised
    /\ instance.strategy = WEIGHTED_AVERAGE
    /\ \E m \in ModalityType : WeightGet(EngineWeights, m) = RInt(0)

\* C15: an engine with strategy LEARNED returns, for every combination of
\* payloads, the final_score, confidence and verdict of an engine with the
\* same weights and threshold and strategy WEIGHTED_AVERAGE, and raises no
\* error.
LearnedCall == call.op = "fuse" /\ instance.strategy = LEARNED
AsWeightedAverage ==
    fuse([instance EXCEPT !.strategy = WEIGHTED_AVERAGE], EngineWeights,
         call.text, call.audio, call.video)

C15_LearnedIsWeightedAverage ==
    LearnedCall =>
        /\ ~ret.raised
        /\ ~AsWeightedAverage.raised
        /\ ret.final_score = AsWeightedAverage.final_score
        /\ ret.confidence = AsWeightedAverage.confidence
        /\ ret.final_verdict = AsWeightedAverage.final_verdict

\* the part of C15 that holds: LEARNED fails exactly where WEIGHTED_AVERAGE
\* fails and returns the same otherwise
C15_SameOutcome ==
    LearnedCall =>
        /\ ret.raised = AsWeightedAverage.raised
        /\ ~ret.raised =>
              /\ ret.final_score = AsWeightedAverage.final_score
              /\ ret.confidence = AsWeightedAverage.confidence
              /\ ret.final_verdict = AsWeightedAverage.final_verdict

C15_RaisesOnlyOnZeroWeightSum ==
    (LearnedCall /\ ret.raised) =>
        RSum([i \in 1..3 |->
                IF ModalityOrder[i] \in Present
                THEN WeightGet(EngineWeights, ModalityOrder[i]) ELSE RInt(0)]) = RInt(0)

\* ------------------------------------------------------ the score extractors
\* engine._extract_text_score(p), _extract_audio_score(p) and
\* _extract_video_score(p) on the engine get_fusion_engine returned, for
\* payloads around every cut point of the three extractors, payloads with
\* missing keys, and payloads whose fields are None or of the wrong type.
MLBlocks ==
    {ML(p, c, click, cred) : p \in {0, 3, 30}, c \in {50, 90, 100},
                             click \in {3, 4}, cred \in {2, 3}}
    \cup {[ML(30, 90, 4, 3) EXCEPT !.keys = {"confidence"}],
          [ML(30, 90, 4, 3) EXCEPT !.keys = {"fake_probability"}]}

ExtractTexts ==
    {TextResult(ml, 1, 90) : ml \in MLBlocks}
    \cup {TextResult(NoML, m, comp) : m \in 0..6, comp \in {0 - 90, 0 - 80, 0, 80, 81}}
    \cup {TextEmpty,
          [TextResult(NoML, 2, 90) EXCEPT !.keys = {"manipulation_indicators"}],
          [TextResult(NoML, 2, 90) EXCEPT !.keys = {"sentiment_analysis"}],
          TextResult([NoML EXCEPT !.null = FALSE], 2, 90),
          WithNulls(TextResult(NoML, 0, 0), {"sentiment_analysis"}),
          WithNulls(TextResult(NoML, 0, 0), {"manipulation_indicators"}),
          TextResult(WithNulls(ML(30, 90, 0, 0), {"features"}), 0, 0),
          TextResult(NotMapping(NoML), 0, 0),
          NotMapping(TextNone)}

IndicatorLists ==
    {<<>>, <<{"noise"}>>, <<{"severe"}>>, <<{"SEVERE"}, {"Extreme"}>>,
     <<{"severe", "extreme"}>>, <<{"severe"}, {"mild"}, {"extreme"}>>,
     <<{"edge"}>>, <<{"Edge"}, {"edge"}>>, <<{"severe", "edge"}>>,
     <<{"SEVERE"}, {"extreme"}, {"edge"}>>}

DFBlocks ==
    {DF(score, conf, inds) : score \in {0, 100}, conf \in {50, 75, 85, 100},
                             inds \in IndicatorLists}
    \cup {[DF(40, 70, <<{"severe"}>>) EXCEPT !.keys = {"indicators"}],
          [DF(40, 70, <<{"severe"}>>) EXCEPT !.keys = {"authenticity_score"}]}

MalformedDFBlocks ==
    {WithNulls(DF(40, 70, <<>>), {"indicators"}),
     DF(40, 70, <<{"severe"}, NonString>>),
     NotMapping(NoDF)}

ExtractAudios ==
    {AudioDF(df) : df \in DFBlocks \cup MalformedDFBlocks}
    \cup {AudioQuality(snr, clip) : snr \in {10, 14, 15, 20, 50, 51}, clip \in {0, 10, 11}}
    \cup {AudioEmpty,
          AudioDF([NoDF EXCEPT !.null = FALSE]),
          WithNulls(AudioQuality(20, 0), {"quality"}),
          NotMapping(AudioNone)}

ExtractVideos ==
    {VideoDF(df) : df \in DFBlocks \cup MalformedDFBlocks}
    \cup {VideoQuality(sharp, scenes, dur) :
            sharp \in {29, 30}, scenes \in {0, 3, 5, 6, 51}, dur \in {0, 5, 10, 100}}
    \cup {VideoEmpty,
          VideoDF([NoDF EXCEPT !.null = FALSE]),
          [VideoQuality(40, 6, 100) EXCEPT !.keys = {"scene_change_count"}],
          WithNulls(VideoQuality(40, 0, 100), {"quality_metrics"}),
          WithNulls(VideoQuality(40, 0, 100), {"video_info"}),
          WithNulls(VideoQuality(40, 0, 100), {"scene_change_count"}),
          NotMapping(VideoNone)}

ExtractCall(op, payload, result) ==
    /\ call = Idle
    /\ instance # NoEngine
    /\ call' = [op |-> op, payload |-> payload]
    /\ ret' = result
    /\ UNCHANGED <<instance, heap, nmut, analysis_store, tasks, remembered, engines, inflight>>

ExtractText ==
    \E t \in ExtractTexts :
        ExtractCall("_extract_text_score", t, _extract_text_score(t, EngineWeights))

ExtractAudio ==
    \E a \in ExtractAudios :
        ExtractCall("_extract_audio_score", a, _extract_audio_score(a, EngineWeights))

ExtractVideo ==
    \E v \in ExtractVideos :
        ExtractCall("_extract_video_score", v, _extract_video_score(v, EngineWeights))

NextExtract == GetFusionEngine \/ ExtractText \/ ExtractAudio \/ ExtractVideo \/ Return

SpecExtract == Init /\ [][NextExtract]_vars

TextCall == call.op = "_extract_text_score"
AudioCall == call.op = "_extract_audio_score"
VideoCall == call.op = "_extract_video_score"

\* C16: each extractor is total: for every supplied payload, one with
\* missing, null or wrongly shaped fields included, it returns a (score,
\* confidence, weight) triple and never raises.
C16_ExtractorsTotal ==
    (TextCall \/ AudioCall \/ VideoCall) =>
        /\ ~ret.raised
        /\ DOMAIN ret = {"raised", "score", "confidence", "weight"}

\* the part of C16 that holds: a payload that is a dict whose present fields
\* are not None and whose indicators are strings is extracted without error,
\* whatever keys are missing
WellShaped(p) == p.mapping /\ p.nulls = {}
WellShapedDF(df) ==
    df.null \/ (WellShaped(df) /\ ~HasNonString(df.indicators))
WellShapedPayload ==
    /\ WellShaped(call.payload)
    /\ TextCall => (call.payload.ml_prediction.null \/ WellShaped(call.payload.ml_prediction))
    /\ (AudioCall \/ VideoCall) => WellShapedDF(call.payload.deepfake_detection)

C16_TotalOnWellShaped ==
    ((TextCall \/ AudioCall \/ VideoCall) /\ WellShapedPayload) => ~ret.raised

\* reading an extractor call: the payload has the block and the fields the
\* sentence speaks of, none of them None or of the wrong type
Extracted == (TextCall \/ AudioCall \/ VideoCall) /\ WellShapedPayload /\ ~ret.raised
HasKeys(p, ks) == ks \subseteq p.keys
PredictionPresent ==
    /\ "ml_prediction" \in call.payload.keys
    /\ Truthy(call.payload.ml_prediction)
DeepfakePresent ==
    /\ "deepfake_detection" \in call.payload.keys
    /\ Truthy(call.payload.deepfake_detection)
CapAt(x, cap) == IF x > cap THEN cap ELSE x

\* C17: text extraction with a model prediction: score = (1 -
\* fake_probability) * 100 and confidence = the model confidence; the
\* confidence is raised by 0.10 and capped at 0.95 exactly when
\* clickbait_indicators > 3, the score raised by 5 and capped at 100 exactly
\* when credibility_markers > 2, each whatever the other count is.
TextWithPrediction ==
    /\ TextCall /\ Extracted /\ PredictionPresent
    /\ HasKeys(call.payload.ml_prediction, {"fake_probability", "confidence", "features"})

C17_TextWithPrediction ==
    TextWithPrediction =>
        LET ml == call.payload.ml_prediction
        IN  /\ ml.credibility_markers > 2 =>
                  ret.score = CapAt((100 - ml.fake_probability) + 5, 100)
            /\ ml.credibility_markers <= 2 => ret.score = 100 - ml.fake_probability
            /\ ml.clickbait_indicators > 3 => ret.confidence = CapAt(ml.confidence + 10, 95)
            /\ ml.clickbait_indicators <= 3 => ret.confidence = ml.confidence

\* the confidence boosted and capped, the score not boosted
C17_Witness ==
    /\ TextWithPrediction
    /\ call.payload.ml_prediction.clickbait_indicators = 4
    /\ call.payload.ml_prediction.credibility_markers = 2
    /\ call.payload.ml_prediction.confidence = 90
    /\ ret.confidence = 95
    /\ ret.score = 70

\* the score boosted and capped, the confidence not boosted
C17_WitnessScore ==
    /\ TextWithPrediction
    /\ call.payload.ml_prediction.clickbait_indicators = 3
    /\ call.payload.ml_prediction.credibility_markers = 3
    /\ call.payload.ml_prediction.fake_probability = 3
    /\ ret.score = 100
    /\ ret.confidence = call.payload.ml_prediction.confidence

\* C18: text extraction without a model prediction, for m manipulation
\* indicators: score = max(10, 65 - 12m, less 8 more when the absolute
\* sentiment compound exceeds 0.8), confidence = 0.55 + min(0.05m, 0.25);
\* the score is in [10, 65] and the confidence in [0.55, 0.80].
TextWithoutPrediction ==
    /\ TextCall /\ Extracted /\ ~PredictionPresent
    /\ HasKeys(call.payload, {"manipulation_indicators", "sentiment_analysis"})

C18_TextFallback ==
    TextWithoutPrediction =>
        LET m == call.payload.manipulation_indicators
            extreme == call.payload.compound > 80 \/ call.payload.compound < 0 - 80
            raw == 65 - 12 * m - (IF extreme THEN 8 ELSE 0)
        IN  /\ ret.score = (IF raw < 10 THEN 10 ELSE raw)
            /\ ret.confidence = 55 + (IF 5 * m < 25 THEN 5 * m ELSE 25)
            /\ 10 <= ret.score /\ ret.score <= 65
            /\ 55 <= ret.confidence /\ ret.confidence <= 80

\* the sentiment penalty takes the score to the floor
C18_Witness ==
    /\ TextWithoutPrediction
    /\ call.payload.manipulation_indicators = 4
    /\ call.payload.compound = 0 - 90
    /\ ret.score = 10

C18_WitnessPenalty ==
    /\ TextWithoutPrediction
    /\ call.payload.manipulation_indicators = 1
    /\ call.payload.compound = 81
    /\ ret.score = 45 /\ ret.confidence = 60

C18_WitnessBoundary ==
    /\ TextWithoutPrediction
    /\ call.payload.manipulation_indicators = 6
    /\ call.payload.compound = 80
    /\ ret.score = 10 /\ ret.confidence = 80

\* the indicators of the deepfake block that contain 'severe' or 'extreme',
\* or 'edge', in any letter case
SevereWords == {"severe", "SEVERE", "extreme", "Extreme"}
EdgeWords == {"edge", "Edge"}
Mentioning(words) ==
    LET inds == call.payload.deepfake_detection.indicators
    IN  Cardinality({k \in 1..Len(inds) : inds[k] \cap words # {}})

WithDeepfake ==
    /\ Extracted /\ DeepfakePresent
    /\ HasKeys(call.payload.deepfake_detection,
               {"authenticity_score", "confidence", "indicators"})

\* C19: audio extraction: with a deepfake-detection block, score = its
\* authenticity score and confidence = its confidence raised by 0.08 for each
\* indicator containing 'severe' or 'extreme' (in any letter case), capped at
\* 0.92; otherwise score = 70, less 15 if snr_db < 15, less 10 if snr_db > 50,
\* less 10 if clipping_percentage > 1.0, and confidence = 0.5.
AudioFallback == AudioCall /\ Extracted /\ ~DeepfakePresent /\ HasKeys(call.payload, {"quality"})

C19_AudioExtraction ==
    /\ (AudioCall /\ WithDeepfake) =>
          LET df == call.payload.deepfake_detection
          IN  /\ ret.score = df.authenticity_score
              /\ Mentioning(SevereWords) = 0 => ret.confidence = df.confidence
              /\ Mentioning(SevereWords) > 0 =>
                    ret.confidence = CapAt(df.confidence + 8 * Mentioning(SevereWords), 92)
    /\ AudioFallback =>
          /\ ret.score = 70 - (IF call.payload.snr_db < 15 THEN 15 ELSE 0)
                            - (IF call.payload.snr_db > 50 THEN 10 ELSE 0)
                            - (IF call.payload.clipping_percentage > 10 THEN 10 ELSE 0)
          /\ ret.confidence = 50

\* two indicators in upper and mixed case, below the cap
C19_Witness ==
    /\ AudioCall /\ WithDeepfake
    /\ call.payload.deepfake_detection.indicators = <<{"SEVERE"}, {"Extreme"}>>
    /\ call.payload.deepfake_detection.confidence = 50
    /\ ret.confidence = 66

C19_WitnessCap ==
    /\ AudioCall /\ WithDeepfake
    /\ Mentioning(SevereWords) = 1
    /\ call.payload.deepfake_detection.confidence = 85
    /\ ret.confidence = 92

C19_WitnessFallback ==
    /\ AudioFallback
    /\ call.payload.snr_db = 14 /\ call.payload.clipping_percentage = 11
    /\ ret.score = 45 /\ ret.confidence = 50

\* C20 as stated: video extraction: with a deepfake-detection block, score =
\* its authenticity score and confidence = its confidence raised by 0.07 for
\* each 'severe'/'extreme' indicator (capped 0.88) and then by a flat 0.10
\* (capped 0.90) if any indicator mentions 'edge'; otherwise score = 70, less
\* 15 if sceneChanges / duration > 5, less 10 if sharpness < 30, and
\* confidence = 0.5.
VideoFallback ==
    /\ VideoCall /\ Extracted /\ ~DeepfakePresent
    /\ HasKeys(call.payload, {"quality_metrics", "scene_change_count", "video_info"})

VideoWithDeepfakeAsStated ==
    (VideoCall /\ WithDeepfake) =>
        LET df == call.payload.deepfake_detection
            severe == IF Mentioning(SevereWords) > 0
                      THEN CapAt(df.confidence + 7 * Mentioning(SevereWords), 88)
                      ELSE df.confidence
        IN  /\ ret.score = df.authenticity_score
            /\ Mentioning(EdgeWords) = 0 => ret.confidence = severe
            /\ Mentioning(EdgeWords) > 0 => ret.confidence = CapAt(severe + 10, 90)

\* sceneChanges / duration > 5 on a duration d in tenths of a second
RateAbove5(scenes, d) == scenes * 10 > 5 * d

C20_WitnessRate ==
    /\ VideoFallback
    /\ call.payload.duration = 10 /\ call.payload.scene_change_count = 6
    /\ call.payload.sharpness = 29
    /\ ret.score = 45

C20_WitnessEdge ==
    /\ VideoCall /\ WithDeepfake
    /\ call.payload.deepfake_detection.indicators = <<{"SEVERE"}, {"extreme"}, {"edge"}>>
    /\ call.payload.deepfake_detection.confidence = 75
    /\ ret.confidence = 90

\* ------------------------------------------------------- the HTTP endpoints
\* POST /analyze of the text, audio and video routers, their background
\* tasks, and POST /analyze-complete.  Each handler runs without
\* suspension between its reads and writes of the stores, so each is one
\* step; a background task writes its record once, when the analysis ends.

\* what analyze_text_file returns: with the model's prediction, or with
\* 'ml_prediction': None when the model is unavailable or fails
AnalyzedTexts ==
    {[TextResult(ML(20, 60, 0, 0), 1, 0)
         EXCEPT !.keys = {"ml_prediction", "manipulation_indicators"}],
     [TextResult(NoML, 1, 0)
         EXCEPT !.keys = {"ml_prediction", "manipulation_indicators"}]}

\* the VideoAnalysisResult object process_video_analysis stores
AnalyzedVideo == NotMapping(VideoNone)

\* the dict analyze_complete builds from a completed audio record: the record
\* has no 'quality' and no 'deepfake_detection' key, so both are {}
AudioAsRead ==
    [TextNone EXCEPT !.null = FALSE, !.keys = {"quality", "deepfake_detection"}]

Stores == {"text", "audio", "video"}

\* analyze_text / analyze_audio / analyze_video of an accepted upload
Analyze ==
    \E m \in Stores, id \in AnalysisIds :
        /\ call = Idle
        /\ analysis_store[m][id] = NoRecord
        /\ \A other \in AnalysisIds : other < id => analysis_store[m][other] # NoRecord
        /\ analysis_store' = [analysis_store EXCEPT ![m][id] = [status |-> PROCESSING]]
        /\ call' = [op |-> "analyze", store |-> m]
        /\ ret' = [raised |-> FALSE, id |-> id, status |-> PROCESSING]
        /\ tasks' = tasks \cup {<<m, id>>}
        /\ UNCHANGED <<instance, heap, nmut, remembered, engines, inflight>>

\* the records a background task can write for an analysis of store m
Outcomes_ExceptionEscapes(m) ==
    {[status |-> PROCESSING]}
    \cup (IF m = "video" THEN {[status |-> COMPLETED, result |-> AnalyzedVideo]}
          ELSE {[status |-> COMPLETED, result_data |-> AudioQuality(20, 0)]})

Outcomes(m) ==
    {[status |-> FAILED, error |-> TRUE]}
    \cup (IF m = "text"
          THEN {[status |-> COMPLETED, result_data |-> r] : r \in AnalyzedTexts}
          ELSE IF m = "audio"
               THEN {[status |-> COMPLETED, result_data |-> AudioQuality(20, 0)]}
               ELSE {[status |-> COMPLETED, result |-> AnalyzedVideo]})

\* process_text_analysis / process_audio_analysis / process_video_analysis:
\* the background task of analysis id runs, once, and writes the record
Process_Repeated(m, id) ==
    /\ <<m, id>> \in tasks
    /\ analysis_store[m][id].status # FAILED
    /\ \E record \in Outcomes(m) :
          analysis_store' = [analysis_store EXCEPT ![m][id] = record]
    /\ UNCHANGED <<instance, heap, nmut, call, ret, tasks, remembered, engines, inflight>>

Process(m, id) ==
    /\ <<m, id>> \in tasks
    /\ tasks' = tasks \ {<<m, id>>}
    /\ \E record \in Outcomes(m) :
          analysis_store' = [analysis_store EXCEPT ![m][id] = record]
    /\ UNCHANGED <<instance, heap, nmut, call, ret, remembered, engines, inflight>>

ProcessAnalysis == \E m \in Stores, id \in AnalysisIds : Process(m, id)

\* the analyze endpoints and their background tasks alone
NextStore == Analyze \/ ProcessAnalysis \/ Return

SpecStore == Init /\ [][NextStore]_vars

\* the event loop runs every background task that was added
SpecStoreFair ==
    SpecStore /\ \A m \in Stores, id \in AnalysisIds : WF_vars(Process(m, id))

\* an id argument: NoId is None (or the empty string)
NoId == 0
RequestIds == {NoId} \cup AnalysisIds
StrategyNames == FusionStrategy \cup {"bogus"}

\* try: FusionStrategy(fusion_strategy) except ValueError: WEIGHTED_AVERAGE
ParseStrategy(fusion_strategy) ==
    IF fusion_strategy \in FusionStrategy THEN fusion_strategy ELSE WEIGHTED_AVERAGE

\* the record read for an id, when it is there and COMPLETED
IsCompleted_StatusUnread(m, id) ==
    /\ id # NoId
    /\ analysis_store[m][id] # NoRecord

IsCompleted(m, id) ==
    /\ id # NoId
    /\ analysis_store[m][id] # NoRecord
    /\ analysis_store[m][id].status = COMPLETED

\* stored.get(key, default)
StoredGet(stored, key, default) ==
    IF key \in DOMAIN stored THEN stored[key] ELSE default

\* not any([text_result, audio_result, video_result])
NoneAvailable_Unchecked(text_result, audio_result, video_result) == FALSE

NoneAvailable(text_result, audio_result, video_result) ==
    ~(Truthy(text_result) \/ Truthy(audio_result) \/ Truthy(video_result))

analyze_complete(text_analysis_id, audio_analysis_id, video_analysis_id, fusion_strategy) ==
    LET text_read == IF IsCompleted("text", text_analysis_id)
                     THEN StoredGet(analysis_store.text[text_analysis_id],
                                    "result_data", TextNone)
                     ELSE TextNone
        \* line 49 assigns the audio dict to text_result
        text_result == IF IsCompleted("audio", audio_analysis_id)
                       THEN AudioAsRead ELSE text_read
        audio_result == AudioNone
        video_result == IF IsCompleted("video", video_analysis_id)
                        THEN StoredGet(analysis_store.video[video_analysis_id],
                                       "result", VideoEmpty)
                        ELSE VideoNone
        rejected == NoneAvailable(text_result, audio_result, video_result)
        strategy_enum == ParseStrategy(fusion_strategy)
        made == NewEngine(strategy_enum, NoDict, DefaultThreshold)
        create == instance = NoEngine
        fusion_engine == IF create THEN made.engine ELSE instance
        engine_heap == IF create THEN made.heap ELSE heap
    IN  /\ call = Idle
        /\ call' = [op |-> "analyze_complete",
                    text_analysis_id |-> text_analysis_id,
                    audio_analysis_id |-> audio_analysis_id,
                    video_analysis_id |-> video_analysis_id,
                    fusion_strategy |-> fusion_strategy,
                    completed |-> {m \in Stores :
                        IsCompleted(m, IF m = "text" THEN text_analysis_id
                                       ELSE IF m = "audio" THEN audio_analysis_id
                                       ELSE video_analysis_id)},
                    rejected |-> rejected,
                    passed |-> [text |-> text_result, audio |-> audio_result,
                                video |-> video_result]]
        /\ IF rejected
           THEN /\ ret' = [raised |-> TRUE, status_code |-> 400]
                /\ UNCHANGED <<instance, heap, nmut>>
           ELSE /\ instance' = fusion_engine
                /\ heap' = engine_heap
                /\ nmut' = IF create THEN 0 ELSE nmut
                /\ ret' = fuse(fusion_engine, engine_heap[fusion_engine.weights],
                               text_result, audio_result, video_result)
        /\ UNCHANGED <<analysis_store, tasks, remembered, engines, inflight>>

AnalyzeComplete ==
    \E text_analysis_id \in RequestIds, audio_analysis_id \in RequestIds,
       video_analysis_id \in RequestIds, fusion_strategy \in StrategyNames :
        analyze_complete(text_analysis_id, audio_analysis_id, video_analysis_id,
                         fusion_strategy)

NextApi == Analyze \/ ProcessAnalysis \/ AnalyzeComplete \/ Return

SpecApi == Init /\ [][NextApi]_vars

\* the requests that leave the strategy at its default: what a request
\* collects from the stores does not depend on the strategy it names
CompleteRequest ==
    \E text_analysis_id \in RequestIds, audio_analysis_id \in RequestIds,
       video_analysis_id \in RequestIds :
        analyze_complete(text_analysis_id, audio_analysis_id, video_analysis_id,
                         WEIGHTED_AVERAGE)

NextRequest == Analyze \/ ProcessAnalysis \/ CompleteRequest \/ Return

SpecRequest == Init /\ [][NextRequest]_vars

\* reading an analyze_complete request
CompleteCall == call.op = "analyze_complete"
Responded == CompleteCall /\ ~ret.raised
ListedStrategies == {WEIGHTED_AVERAGE, MAXIMUM, MINIMUM, VOTING}

\* C13: for any sequence of analyze_complete requests, a request naming one
\* of the four listed strategies that has at least one completed analysis is
\* fused with that strategy: the 'fusion_strategy' of its response is the
\* name it asked for, whatever earlier requests asked for.
C13_RequestedStrategyUsed ==
    (Responded /\ call.fusion_strategy \in ListedStrategies /\ call.completed # {}) =>
        ret.fusion_strategy = call.fusion_strategy

\* the part of C13 that holds: the request that creates the engine gets the
\* strategy it names
C13_FirstRequestServed ==
    [][(instance = NoEngine /\ Responded' /\ call'.fusion_strategy \in ListedStrategies) =>
          ret'.fusion_strategy = call'.fusion_strategy]_vars

\* C14: for any sequence of analyze_complete requests, a request whose
\* fusion_strategy is no known strategy name raises no error and is fused
\* with the weighted-average strategy (its response reports
\* 'weighted_average'), whatever earlier requests asked for.
C14_UnknownStrategyFallsBack ==
    (Responded /\ call.fusion_strategy \notin FusionStrategy /\ call.completed # {}) =>
        ret.fusion_strategy = WEIGHTED_AVERAGE

\* the part of C14 that holds: an unknown name on the request that creates
\* the engine gives weighted average
C14_FirstRequestFallsBack ==
    [][(instance = NoEngine /\ Responded' /\ call'.fusion_strategy \notin FusionStrategy) =>
          ret'.fusion_strategy = WEIGHTED_AVERAGE]_vars

\* every response reports the strategy of the engine created by the first
\* request that reached the engine
C13_ResponseReportsSingleton ==
    Responded => ret.fusion_strategy = instance.strategy

\* C24: every result fuse returns, the no-data result included, carries an
\* explanation whose confidence level is one of Very High, High, Medium, Low,
\* chosen from the result's confidence (>= 0.8 Very High, >= 0.6 High,
\* >= 0.4 Medium, otherwise Low), and whose verdict is the result's verdict.
ConfidenceLevels == {"Very High", "High", "Medium", "Low"}
LevelOf(confidence) ==
    IF RLe(RInt(80), confidence) THEN "Very High"
    ELSE IF RLe(RInt(60), confidence) THEN "High"
    ELSE IF RLe(RInt(40), confidence) THEN "Medium"
    ELSE "Low"

C24_ExplanationLevel ==
    FuseReturned =>
        /\ ret.explanation.confidence_level \in ConfidenceLevels
        /\ ret.explanation.confidence_level = LevelOf(ret.confidence)
        /\ ret.explanation.verdict = ret.final_verdict

\* the part of C24 that holds: a result fused from at least one modality
C24_LevelOfFusedResult ==
    (FuseReturned /\ Reported # {}) =>
        /\ ret.explanation.confidence_level = LevelOf(ret.confidence)
        /\ ret.explanation.verdict = ret.final_verdict

\* C29: for the same present modality scores and any weight configuration the
\* constructor accepts, minimum-fusion final_score <= weighted-average
\* final_score <= maximum-fusion final_score.
FusedWith(strategy) ==
    fuse([instance EXCEPT !.strategy = strategy], EngineWeights,
         call.text, call.audio, call.video)

C29_StrategiesOrdered ==
    (WeightedReturned /\ ~FusedWith(MINIMUM).raised /\ ~FusedWith(MAXIMUM).raised) =>
        /\ RLe(FusedWith(MINIMUM).final_score, ret.final_score)
        /\ RLe(ret.final_score, FusedWith(MAXIMUM).final_score)

\* the part of C29 that holds: the order with weights that are all >= 0
NonNegativeWeights ==
    \A m \in ModalityType : RLe(RInt(0), WeightGet(EngineWeights, m))

C29_OrderedWithNonNegativeWeights ==
    (WeightedReturned /\ NonNegativeWeights) =>
        /\ RLe(FusedWith(MINIMUM).final_score, ret.final_score)
        /\ RLe(ret.final_score, FusedWith(MAXIMUM).final_score)

\* C30: every confidence adjustment moves the confidence only in its stated
\* direction: in weighted-average fusion agreement (std < 15) never returns a
\* confidence below the unadjusted weighted mean and disagreement (std > 35)
\* never one above it; the severe/extreme/edge boosts of the audio and video
\* extractors never return a confidence below the one the deepfake block
\* reports.
C30_FusionDirection ==
    (WeightedReturned /\ Cardinality(Reported) >= 2) =>
        /\ RLt(Variance, RInt(225)) => RLe(MeanConfidence, ret.confidence)
        /\ RLt(RInt(1225), Variance) => RLe(ret.confidence, MeanConfidence)

C30_ExtractorDirection ==
    ((AudioCall \/ VideoCall) /\ WithDeepfake) =>
        ret.confidence >= call.payload.deepfake_detection.confidence

C30_AdjustmentDirection ==
    /\ call.op = "fuse" => C30_FusionDirection
    /\ call.op # "fuse" => C30_ExtractorDirection

\* C21: in analyze_complete an id whose record is missing or not COMPLETED
\* contributes no payload: whatever the background tasks have done so far,
\* every payload the request hands to fuse is the data of a record that was
\* COMPLETED when the request read it.
RequestedId(c, m) ==
    IF m = "text" THEN c.text_analysis_id
    ELSE IF m = "audio" THEN c.audio_analysis_id
    ELSE c.video_analysis_id

\* the data analyze_complete takes from the record of store m
DataOf(m, stored) ==
    IF m = "text" THEN stored.result_data
    ELSE IF m = "audio" THEN AudioAsRead
    ELSE stored.result

C21_OnlyCompletedRecordsFused ==
    [][(call = Idle /\ call'.op = "analyze_complete") =>
          \A slot \in Stores :
              ~call'.passed[slot].null =>
                  \E m \in Stores :
                      /\ RequestedId(call', m) # NoId
                      /\ analysis_store[m][RequestedId(call', m)].status = COMPLETED
                      /\ call'.passed[slot] =
                             DataOf(m, analysis_store[m][RequestedId(call', m)])]_vars

C21_Witness ==
    /\ CompleteCall /\ ~call.rejected
    /\ call.text_analysis_id # NoId
    /\ analysis_store.text[call.text_analysis_id].status = COMPLETED
    /\ call.passed.text = analysis_store.text[call.text_analysis_id].result_data
    /\ call.video_analysis_id # NoId
    /\ analysis_store.video[call.video_analysis_id].status = FAILED
    /\ call.passed.video.null

\* C25: analyze_complete hands each COMPLETED analysis to fuse under its own
\* modality, so the response's modality_contributions has exactly the
\* modalities whose ids referred to COMPLETED analyses, and the text
\* contribution is computed from the text analysis whenever a completed text
\* id was given.
C25_OwnModality ==
    Responded =>
        /\ Reported = call.completed
        /\ "text" \in call.completed =>
               call.passed.text = analysis_store.text[call.text_analysis_id].result_data

\* the part of C25 that holds: a request with a completed text id and no
\* completed audio or video id is fused from the text analysis alone
C25_TextAlone ==
    (Responded /\ call.completed = {"text"}) =>
        /\ Reported = {TEXT}
        /\ call.passed.text = analysis_store.text[call.text_analysis_id].result_data

\* C26: analyze_complete with no id that refers to a COMPLETED analysis is
\* rejected with HTTP 400 before the engine is obtained: fuse is not called,
\* the engine singleton is neither created nor replaced, and the analysis
\* stores are unchanged.
C26_RejectedBeforeEngine ==
    [][(/\ call = Idle /\ call'.op = "analyze_complete"
        /\ \A m \in Stores :
               \/ RequestedId(call', m) = NoId
               \/ analysis_store[m][RequestedId(call', m)].status # COMPLETED)
       => /\ ret' = [raised |-> TRUE, status_code |-> 400]
          /\ instance' = instance
          /\ heap' = heap
          /\ analysis_store' = analysis_store]_vars

C26_Witness ==
    /\ CompleteCall
    /\ ret = [raised |-> TRUE, status_code |-> 400]
    /\ instance = NoEngine
    /\ call.text_analysis_id # NoId
    /\ analysis_store.text[call.text_analysis_id].status = FAILED
    /\ call.audio_analysis_id # NoId
    /\ analysis_store.audio[call.audio_analysis_id].status = PROCESSING

\* C27: in each analysis store a record is created with status PROCESSING by
\* the analyze request and its status changes at most once afterwards, to
\* COMPLETED or to FAILED; a COMPLETED or FAILED record never changes again,
\* a COMPLETED record carries its result and a FAILED record its error, and
\* no stored record has status PENDING.
CarriesResult(m, stored) ==
    IF m = "video" THEN "result" \in DOMAIN stored ELSE "result_data" \in DOMAIN stored

C27_RecordLifecycle ==
    [][\A m \in Stores, id \in AnalysisIds :
          LET old == analysis_store[m][id]
              new == analysis_store'[m][id]
          IN  /\ new.status # PENDING
              /\ (old = NoRecord /\ new # NoRecord) =>
                     (new.status = PROCESSING /\ call'.op = "analyze")
              /\ old.status = PROCESSING =>
                     new.status \in {PROCESSING, COMPLETED, FAILED}
              /\ old.status \in {COMPLETED, FAILED} => new = old
              /\ new.status = COMPLETED => CarriesResult(m, new)
              /\ new.status = FAILED => "error" \in DOMAIN new]_vars

C27_Witness ==
    /\ analysis_store.text[1].status = COMPLETED
    /\ analysis_store.audio[1].status = FAILED
    /\ analysis_store.video[1].status = PROCESSING

\* C28: every analysis an analyze endpoint accepted eventually leaves
\* PROCESSING: when the background tasks are scheduled fairly its record
\* reaches COMPLETED or FAILED, an exception in the analyzer or in the scoring
\* giving FAILED.
C28_EventuallyLeavesProcessing ==
    \A m \in Stores, id \in AnalysisIds :
        (analysis_store[m][id].status = PROCESSING)
            ~> (analysis_store[m][id].status \in {COMPLETED, FAILED})

C28_Witness ==
    /\ analysis_store.video[1].status = FAILED
    /\ analysis_store.text[1].status = COMPLETED
    /\ <<"audio", 1>> \in tasks
    /\ analysis_store.audio[1].status = PROCESSING

\* C22: fuse is a pure function of the strategy, the weights, the confidence
\* threshold and the payloads: a call leaves the engine's configuration and
\* the payloads it was given unchanged, and two calls on the same engine with
\* equal payloads return equal results whatever other fuse calls were made in
\* between.
C22_FuseIsPure ==
    /\ (FuseReturned /\ Reported # {}) =>
           ret.detailed_analysis = [text |-> call.text, audio |-> call.audio,
                                    video |-> call.video]
    /\ remembered # Idle =>
           /\ remembered.engine = instance
           /\ remembered.weights = EngineWeights
           /\ (call.op = "fuse" /\ SamePayloads(call, remembered)) =>
                  ret = remembered.ret

C22_Witness ==
    /\ remembered # Idle
    /\ remembered.others
    /\ FuseReturned
    /\ SamePayloads(call, remembered)
    /\ Reported = {TEXT, VIDEO}

\* C23: reconfiguration never mutates an existing engine:
\* get_fusion_engine(force_reload=True, ...) builds a new instance, so a fuse
\* call in flight on the previous instance finishes with one consistent
\* configuration: the strategy it dispatches on, the weights it applies and
\* the 'fusion_strategy' and 'weights_used' it reports all belong to the
\* instance it started on.
ConfigOf(object) == object.heap[object.engine.weights]

C23_ReloadLeavesEngineAlone ==
    /\ inflight # Idle => Self = inflight.started_on
    /\ (call.op = "fuse" /\ "started_on" \in DOMAIN call) =>
           /\ engines[call.self] = call.started_on
           /\ call.reads.strategy = call.started_on.engine.strategy
           /\ call.reads.strategy_value = call.started_on.engine.strategy
           /\ call.reads.weights = ConfigOf(call.started_on)
           /\ call.reads.weights_dict = ConfigOf(call.started_on)
           /\ ret = fuse(call.started_on.engine, ConfigOf(call.started_on),
                         call.text, call.audio, call.video)

\* a fuse call that began on one instance and finished when the singleton
\* was another one with another strategy and other weights
C23_Witness ==
    /\ call.op = "fuse" /\ "started_on" \in DOMAIN call
    /\ ~ret.raised
    /\ call.singleton # call.self
    /\ engines[call.singleton].engine.strategy # call.started_on.engine.strategy
    /\ ConfigOf(engines[call.singleton]) # ConfigOf(call.started_on)
    /\ Cardinality(Reported) >= 2

====
